---- MODULE Spec2Model ----
(***************************************************************************)
(* Korra AI agent: the LangGraph orchestration graph of backend/graph.py   *)
(* (conversation state, merge policy, router, agent node, three tool       *)
(* nodes, graph edges).                                                    *)
(*                                                                         *)
(* Text is modelled as a sequence of tokens; a tool name is a sequence of  *)
(* one-character strings so that Python's substring test and lower() are   *)
(* computed, not assumed.                                                  *)
(***************************************************************************)
EXTENDS Integers, Sequences, FiniteSets, TLC

VARIABLES
    seed,            \* the messages the run was started with
    messages,        \* State["messages"] of the run
    node,            \* the node the executor runs next ("__end__" = Terminated)
    status,          \* "running", or "failed" once an exception left a node
    path,            \* the nodes executed so far, in order
    proc,            \* the subprocess of file_stats__tool
    file_stats_exe,  \* the configured executable path (FILE_STATS_EXE)
    mcp_tools,       \* github_mcp__tool: the tools its own discovery returned
    remote_tools,    \* the tools the MCP server offers at present
    log,             \* router, discovery and binding calls made so far
    rLast, rOut,     \* route_tools called alone: its argument, its result
    mLeft, mRight, mOut, \* add_messages called alone: arguments, result
    cur, parked,     \* concurrent sessions: the one stepping, the others' runs
    child, clock, ret  \* analyze_file_statistics: subprocess, its timer, result

vars == <<seed, messages, node, status, path, proc, file_stats_exe, mcp_tools,
          remote_tools, log, rLast, rOut, mLeft, mRight, mOut, cur, parked,
          child, clock, ret>>

graphVars == <<seed, messages, node, status, path, proc, file_stats_exe, mcp_tools,
               remote_tools, log>>
routeVars == <<rLast, rOut>>
mergeVars == <<mLeft, mRight, mOut>>
sessionVars == <<cur, parked>>
toolVars == <<child, clock, ret>>

-----------------------------------------------------------------------------
(* Bounds of the model *)

MaxMsgs == 5

-----------------------------------------------------------------------------
(* Text helpers *)

Last(s) == s[Len(s)]

IsPrefix(s, t) == Len(s) <= Len(t) /\ SubSeq(t, 1, Len(s)) = s

\* Python: sub in s
Contains(sub, s) ==
    \E i \in 0..(Len(s) - Len(sub)) : SubSeq(s, i + 1, i + Len(sub)) = sub

UpperCase == <<"A","B","C","D","E","F","G","H","I","J","K","L","M",
               "N","O","P","Q","R","S","T","U","V","W","X","Y","Z">>
LowerCase == <<"a","b","c","d","e","f","g","h","i","j","k","l","m",
               "n","o","p","q","r","s","t","u","v","w","x","y","z">>

LowerChar(c) ==
    IF \E i \in 1..26 : UpperCase[i] = c
    THEN LowerCase[CHOOSE i \in 1..26 : UpperCase[i] = c]
    ELSE c

\* Python: s.lower()
Lower(s) == [i \in 1..Len(s) |-> LowerChar(s[i])]

Whitespace == {" ", "\n"}

RECURSIVE LStrip(_)
LStrip(s) ==
    IF s # <<>> /\ Head(s) \in Whitespace THEN LStrip(Tail(s)) ELSE s

RECURSIVE RStrip(_)
RStrip(s) ==
    IF s # <<>> /\ Last(s) \in Whitespace
    THEN RStrip(SubSeq(s, 1, Len(s) - 1))
    ELSE s

\* Python: s.strip()
Strip(s) == RStrip(LStrip(s))

-----------------------------------------------------------------------------
(* Tool names *)

kw_tavily == <<"t","a","v","i","l","y">>
kw_file   == <<"f","i","l","e">>
kw_stats  == <<"s","t","a","t","s">>
kw_github == <<"g","i","t","h","u","b">>

n_tavily_search == <<"t","a","v","i","l","y","_","s","e","a","r","c","h">>
n_Tavily_Search == <<"T","a","v","i","l","y","_","S","e","a","r","c","h">>
n_file_stats    == <<"f","i","l","e","_","s","t","a","t","s">>
n_get_stats     == <<"g","e","t","_","s","t","a","t","s">>
n_profile       == <<"p","r","o","f","i","l","e">>
n_github_create_issue ==
    <<"g","i","t","h","u","b","_","c","r","e","a","t","e","_","i","s","s","u","e">>
n_github_file_stats ==
    <<"g","i","t","h","u","b","_","f","i","l","e","_","s","t","a","t","s">>
n_tavily_github == <<"t","a","v","i","l","y","_","g","i","t","h","u","b">>
n_FILE_STATS    == <<"F","I","L","E","_","S","T","A","T","S">>
n_GitHub_Search == <<"G","i","t","H","u","b","_","S","e","a","r","c","h">>
n_weather       == <<"w","e","a","t","h","e","r">>
n_empty         == <<>>

\* a tool-call request: has_name is FALSE when the dict has no "name" key
ToolCall(n) == [has_name |-> TRUE, name |-> n]
NamelessCall == [has_name |-> FALSE, name |-> <<>>]

-----------------------------------------------------------------------------
(* Messages *)

NoId == 0

\* what a node hands to the merge: a message object, or a bare str
AIMessage(id, content, calls) ==
    [id |-> id, type |-> "ai", content |-> content, tool_calls |-> calls]
HumanMessage(id, content) ==
    [id |-> id, type |-> "human", content |-> content, tool_calls |-> <<>>]
StrItem(content) ==
    [id |-> NoId, type |-> "str", content |-> content, tool_calls |-> <<>>]

Ids(s) == {s[i].id : i \in 1..Len(s)}

SetMax(S) == IF S = {} THEN 0 ELSE CHOOSE x \in S : \A y \in S : y <= x

\* an id no message of s carries (uuid4, or the backend's run id)
FreshId(s) == SetMax(Ids(s)) + 1

-----------------------------------------------------------------------------
(* The merge policy of State.messages: langgraph's add_messages reducer *)

\* convert_to_messages: a bare str becomes a human message
Coerce(m) == IF m.type = "str" THEN [m EXCEPT !.type = "human"] ELSE m

\* a message without an id is given a fresh uuid
RECURSIVE AssignIds(_, _)
AssignIds(right, next) ==
    IF right = <<>> THEN <<>>
    ELSE IF Head(right).id = NoId
         THEN <<[Head(right) EXCEPT !.id = next]>> \o AssignIds(Tail(right), next + 1)
         ELSE <<Head(right)>> \o AssignIds(Tail(right), next)

RECURSIVE MergeById_prepend(_, _)
MergeById_prepend(merged, right) ==
    IF right = <<>> THEN merged
    ELSE LET m == Head(right)
             hit == {i \in 1..Len(merged) : merged[i].id = m.id}
         IN  IF hit # {}
             THEN MergeById_prepend([merged EXCEPT ![CHOOSE i \in hit : TRUE] = m],
                                    Tail(right))
             ELSE MergeById_prepend(<<m>> \o merged, Tail(right))

\* a message whose id is already in the list takes that message's place;
\* any other message is appended
RECURSIVE MergeById(_, _)
MergeById(merged, right) ==
    IF right = <<>> THEN merged
    ELSE LET m == Head(right)
             hit == {i \in 1..Len(merged) : merged[i].id = m.id}
         IN  IF hit # {}
             THEN MergeById([merged EXCEPT ![CHOOSE i \in hit : TRUE] = m], Tail(right))
             ELSE MergeById(Append(merged, m), Tail(right))

add_messages_replacing(left, right) ==
    AssignIds([i \in 1..Len(right) |-> Coerce(right[i])],
              SetMax(Ids(left) \cup Ids(right)) + 1)

add_messages(left, right) ==
    MergeById(left,
              AssignIds([i \in 1..Len(right) |-> Coerce(right[i])],
                        SetMax(Ids(left) \cup Ids(right)) + 1))

-----------------------------------------------------------------------------
(* The graph: node names, router, edges *)

END == "__end__"
ToolNodes == {"tavily_tool", "file_stats_tool", "github_mcp_tool"}
Nodes == {"agent"} \cup ToolNodes

\* tool_calls[0].get("name", "").lower()
FirstName(tool_calls) ==
    Lower(IF tool_calls[1].has_name THEN tool_calls[1].name ELSE <<>>)

route_tools_last_call(msgs) ==
    LET tool_calls == Last(msgs).tool_calls
    IN  IF tool_calls # <<>>
        THEN LET name == FirstName(<<Last(tool_calls)>>)
             IN  IF Contains(kw_tavily, name) THEN "tavily_tool"
                 ELSE IF Contains(kw_file, name) \/ Contains(kw_stats, name)
                      THEN "file_stats_tool"
                 ELSE IF Contains(kw_github, name) THEN "github_mcp_tool"
                 ELSE END
        ELSE END

route_tools_tavily_to_file_stats(msgs) ==
    LET tool_calls == Last(msgs).tool_calls
    IN  IF tool_calls # <<>>
        THEN LET name == FirstName(tool_calls)
             IN  IF Contains(kw_tavily, name) THEN "file_stats_tool"
                 ELSE IF Contains(kw_file, name) \/ Contains(kw_stats, name)
                      THEN "file_stats_tool"
                 ELSE IF Contains(kw_github, name) THEN "github_mcp_tool"
                 ELSE END
        ELSE END

route_tools_case_sensitive(msgs) ==
    LET tool_calls == Last(msgs).tool_calls
    IN  IF tool_calls # <<>>
        THEN LET name == IF tool_calls[1].has_name THEN tool_calls[1].name ELSE <<>>
             IN  IF Contains(kw_tavily, name) THEN "tavily_tool"
                 ELSE IF Contains(kw_file, name) \/ Contains(kw_stats, name)
                      THEN "file_stats_tool"
                 ELSE IF Contains(kw_github, name) THEN "github_mcp_tool"
                 ELSE END
        ELSE END

route_tools_hop_limit(msgs) ==
    LET tool_calls == Last(msgs).tool_calls
    IN  IF tool_calls # <<>> /\ Len(msgs) < 4
        THEN LET name == FirstName(tool_calls)
             IN  IF Contains(kw_tavily, name) THEN "tavily_tool"
                 ELSE IF Contains(kw_file, name) \/ Contains(kw_stats, name)
                      THEN "file_stats_tool"
                 ELSE IF Contains(kw_github, name) THEN "github_mcp_tool"
                 ELSE END
        ELSE END

route_tools_github_first(msgs) ==
    LET tool_calls == Last(msgs).tool_calls
    IN  IF tool_calls # <<>>
        THEN LET name == FirstName(tool_calls)
             IN  IF Contains(kw_github, name) THEN "github_mcp_tool"
                 ELSE IF Contains(kw_tavily, name) THEN "tavily_tool"
                 ELSE IF Contains(kw_file, name) \/ Contains(kw_stats, name)
                      THEN "file_stats_tool"
                 ELSE END
        ELSE END

route_tools_no_github(msgs) ==
    LET tool_calls == Last(msgs).tool_calls
    IN  IF tool_calls # <<>>
        THEN LET name == FirstName(tool_calls)
             IN  IF Contains(kw_tavily, name) THEN "tavily_tool"
                 ELSE IF Contains(kw_file, name) \/ Contains(kw_stats, name)
                      THEN "file_stats_tool"
                 ELSE END
        ELSE END

route_tools(msgs) ==
    LET tool_calls == Last(msgs).tool_calls
    IN  IF tool_calls # <<>>
        THEN LET name == FirstName(tool_calls)
             IN  IF Contains(kw_tavily, name) THEN "tavily_tool"
                 ELSE IF Contains(kw_file, name) \/ Contains(kw_stats, name)
                      THEN "file_stats_tool"
                 ELSE IF Contains(kw_github, name) THEN "github_mcp_tool"
                 ELSE END
        ELSE END

edge_file_stats_to_end(n) == IF n = "file_stats_tool" THEN END ELSE "agent"

\* add_edge(<tool node>, "agent")
edge(n) ==
    CASE n = "tavily_tool"     -> "agent"
      [] n = "file_stats_tool" -> "agent"
      [] n = "github_mcp_tool" -> "agent"

-----------------------------------------------------------------------------
(* The external collaborators: what they can answer *)

\* the model backend's answers (content, tool-call requests)
LLMResponses ==
    { [content |-> <<"answer">>, tool_calls |-> <<>>],
      [content |-> <<"rust vs go">>, tool_calls |-> <<ToolCall(n_tavily_search)>>],
      [content |-> <<"notes.txt">>, tool_calls |-> <<ToolCall(n_file_stats)>>],
      [content |-> <<>>, tool_calls |-> <<ToolCall(n_github_create_issue)>>],
      [content |-> <<>>, tool_calls |-> <<ToolCall(n_weather)>>],
      [content |-> <<>>, tool_calls |-> <<ToolCall(n_github_file_stats)>>],
      [content |-> <<>>,
       tool_calls |-> <<ToolCall(n_weather), ToolCall(n_tavily_search)>>],
      [content |-> <<"rust vs go">>,
       tool_calls |-> <<ToolCall(n_tavily_search),
                        ToolCall(n_github_create_issue)>>] }

\* the search backend's payload for a query
tavily_invoke(query) == <<"results for: ">> \o query

\* tools_for_binding = [tavily_tool]: the names the agent's backend is given
AgentBoundTools == {n_tavily_search}

\* what remote discovery can return
RemoteToolSets == { {}, {n_github_create_issue} }

ExePaths == {"./file_stats", "/opt/tools/file_stats"}

Seeds ==
    { <<HumanMessage(1, <<"search for rust vs go">>)>>,
      <<HumanMessage(1, <<"hello">>), AIMessage(2, <<"hi">>, <<>>),
        HumanMessage(3, <<"stats of notes.txt">>)>> }

\* subprocess output streams, as token sequences
Stdouts ==
    { <<>>,
      <<"{", "lines", ":", "10", ",", "words", ":", "50", "}", "\n">>,
      <<" ", "{", "}", "\n">>,
      <<"42", "\n">>,
      <<"lines", " ", "10", "\n">> }
Stderrs == { <<>>, <<"bad file">>, <<" ", "bad file", "\n">> }
ExitCodes == {0, 1, 2}

\* exceptions subprocess.run raises other than FileNotFoundError
LaunchErrors == { <<"PermissionError", "Permission denied">> }
WaitErrors   == { <<"UnicodeDecodeError", "invalid start byte">> }

-----------------------------------------------------------------------------
(* json.loads / json.dumps(indent=2) on token sequences *)

JsonKeys == {"lines", "words"}
JsonNumbers == {"10", "50", "42"}

NoWhitespace(s) == SelectSeq(s, LAMBDA t : t \notin Whitespace)

\* the tokens between the braces are key : value groups separated by commas
IsMemberList(t) ==
    \/ t = <<>>
    \/ /\ Len(t) % 4 = 3
       /\ \A i \in 1..Len(t) :
            CASE i % 4 = 1 -> t[i] \in JsonKeys
              [] i % 4 = 2 -> t[i] = ":"
              [] i % 4 = 3 -> t[i] \in JsonNumbers
              [] OTHER     -> t[i] = ","

\* json.loads: ok is FALSE when it raises; otherwise the parsed value
json_loads(text) ==
    LET t == NoWhitespace(text)
    IN  IF Len(t) = 1 /\ t[1] \in JsonNumbers
        THEN [ok |-> TRUE, kind |-> "number", value |-> t]
        ELSE IF /\ Len(t) >= 2 /\ t[1] = "{" /\ t[Len(t)] = "}"
                /\ IsMemberList(SubSeq(t, 2, Len(t) - 1))
             THEN [ok |-> TRUE, kind |-> "object",
                   value |-> SelectSeq(SubSeq(t, 2, Len(t) - 1),
                                       LAMBDA x : x \notin {":", ","})]
             ELSE [ok |-> FALSE, kind |-> "none", value |-> <<>>]

\* the members of an object, one per line, indented by two spaces
RECURSIVE DumpMembers(_)
DumpMembers(kv) ==
    IF kv = <<>> THEN <<>>
    ELSE <<"\n", "  ", kv[1], ":", " ", kv[2]>>
         \o (IF Len(kv) > 2 THEN <<",">> ELSE <<>>)
         \o DumpMembers(SubSeq(kv, 3, Len(kv)))

\* json.dumps(parsed, indent=2)
json_dumps(parsed) ==
    IF parsed.kind = "number" THEN parsed.value
    ELSE IF parsed.value = <<>> THEN <<"{", "}">>
    ELSE <<"{">> \o DumpMembers(parsed.value) \o <<"\n", "}">>

-----------------------------------------------------------------------------
(* file_stats__tool: the message each outcome of subprocess.run produces *)

ErrPrefixNotFound == "file_stats executable not found: "
ErrPrefixExit     == "file_stats tool error (rc="
ErrPrefixRaised   == "file_stats tool exception: "

NotFoundText(exe) == <<ErrPrefixNotFound, exe>>

RaisedText(e) == <<ErrPrefixRaised, e[1], ": ", e[2]>>

ExitErrorText(rc, stderr) == <<ErrPrefixExit, ToString(rc), "): ">> \o Strip(stderr)

OutputText_raw(stdout) == Strip(stdout)

OutputText(stdout) ==
    LET out == Strip(stdout)
        parsed == json_loads(out)
    IN  IF parsed.ok THEN json_dumps(parsed) ELSE out

CompletedText_ignores_rc(rc, stdout, stderr) == OutputText(stdout)

\* the body of the try block once the process has exited
CompletedText(rc, stdout, stderr) ==
    IF rc # 0 THEN ExitErrorText(rc, stderr) ELSE OutputText(stdout)

NoTools == [discovered |-> FALSE, tools |-> {}]

NoProc == [st |-> "none", exits |-> FALSE, rc |-> 0, stdout |-> <<>>, stderr |-> <<>>]

-----------------------------------------------------------------------------
(* The run of the compiled graph *)

Running(n) == status = "running" /\ node = n

Complete_twice(n, out, next) ==
    /\ messages' = add_messages(messages, out \o out)
    /\ node' = next
    /\ path' = Append(path, n)
    /\ status' = "running"

\* a node returned {"messages": out}: merge it, then follow the node's edge
Complete(n, out, next) ==
    /\ messages' = add_messages(messages, out)
    /\ node' = next
    /\ path' = Append(path, n)
    /\ status' = "running"

Raise_partial ==
    /\ status' = "failed"
    /\ messages' = add_messages(messages, <<StrItem(<<"error">>)>>)
    /\ UNCHANGED <<node, path>>

\* an exception left the node: the run fails, nothing is merged
Raise ==
    /\ status' = "failed"
    /\ UNCHANGED <<messages, node, path>>

Idle == UNCHANGED <<seed, remote_tools, routeVars, mergeVars, sessionVars, toolVars>>

\* calls the run makes: route_tools on a message, build_mcp_tools, bind_tools
RouteEv(id) == [ev |-> "route", id |-> id, tools |-> {}]
DiscoverEv(tools) == [ev |-> "discover", id |-> NoId, tools |-> tools]
DiscoverFailedEv == [ev |-> "discover_failed", id |-> NoId, tools |-> {}]
BindEv(tools) == [ev |-> "bind", id |-> NoId, tools |-> tools]

\* agent: response = agent_llm.invoke(messages); then the conditional edge
Agent ==
    /\ Running("agent")
    /\ Len(messages) < MaxMsgs
    /\ \E r \in LLMResponses :
         LET response == AIMessage(FreshId(messages), r.content, r.tool_calls)
         IN  /\ messages' = add_messages(messages, <<response>>)
             /\ node' = route_tools(messages')
             /\ path' = Append(path, "agent")
             /\ status' = "running"
             /\ log' = Append(log, RouteEv(Last(messages').id))
    /\ UNCHANGED <<proc, file_stats_exe, mcp_tools>>
    /\ Idle

AgentRaises ==
    /\ Running("agent")
    /\ Raise
    /\ UNCHANGED <<proc, file_stats_exe, mcp_tools, log>>
    /\ Idle

\* tavily__tool
TavilyTool ==
    /\ Running("tavily_tool")
    /\ Len(messages) < MaxMsgs
    /\ LET result == tavily_invoke(Last(messages).content)
       IN  Complete("tavily_tool", <<StrItem(result)>>, edge("tavily_tool"))
    /\ UNCHANGED <<proc, file_stats_exe, mcp_tools, log>>
    /\ Idle

TavilyRaises ==
    /\ Running("tavily_tool")
    /\ Raise
    /\ UNCHANGED <<proc, file_stats_exe, mcp_tools, log>>
    /\ Idle

FileStatsLaunch_uncaught ==
    /\ Running("file_stats_tool")
    /\ proc.st # "running"
    /\ Len(messages) < MaxMsgs
    /\ \/ /\ Complete("file_stats_tool",
                      <<StrItem(NotFoundText(file_stats_exe))>>,
                      edge("file_stats_tool"))
          /\ proc' = [NoProc EXCEPT !.st = "not_found"]
       \/ \E e \in LaunchErrors :
            /\ Raise
            /\ proc' = [NoProc EXCEPT !.st = "raised"]
       \/ \E b \in BOOLEAN :
            /\ proc' = [NoProc EXCEPT !.st = "running", !.exits = b]
            /\ UNCHANGED <<messages, node, path, status>>
    /\ UNCHANGED <<file_stats_exe, mcp_tools, log>>
    /\ Idle

\* file_stats__tool, up to the launch of the process: subprocess.run either
\* raises at once or starts a process that the node then waits for
FileStatsLaunch ==
    /\ Running("file_stats_tool")
    /\ proc.st # "running"
    /\ Len(messages) < MaxMsgs
    /\ \/ /\ Complete("file_stats_tool",
                      <<StrItem(NotFoundText(file_stats_exe))>>,
                      edge("file_stats_tool"))
          /\ proc' = [NoProc EXCEPT !.st = "not_found"]
       \/ \E e \in LaunchErrors :
            /\ Complete("file_stats_tool", <<StrItem(RaisedText(e))>>,
                        edge("file_stats_tool"))
            /\ proc' = [NoProc EXCEPT !.st = "raised"]
       \/ \E b \in BOOLEAN :
            /\ proc' = [NoProc EXCEPT !.st = "running", !.exits = b]
            /\ UNCHANGED <<messages, node, path, status>>
    /\ UNCHANGED <<file_stats_exe, mcp_tools, log>>
    /\ Idle

\* file_stats__tool, from the exit of the process to the return
FileStatsExit ==
    /\ Running("file_stats_tool")
    /\ proc.st = "running"
    /\ proc.exits
    /\ \/ \E rc \in ExitCodes, out \in Stdouts, err \in Stderrs :
            /\ Complete("file_stats_tool",
                        <<StrItem(CompletedText(rc, out, err))>>,
                        edge("file_stats_tool"))
            /\ proc' = [st |-> "exited", exits |-> TRUE, rc |-> rc,
                        stdout |-> out, stderr |-> err]
       \/ \E e \in WaitErrors :
            /\ Complete("file_stats_tool", <<StrItem(RaisedText(e))>>,
                        edge("file_stats_tool"))
            /\ proc' = [NoProc EXCEPT !.st = "raised"]
    /\ UNCHANGED <<file_stats_exe, mcp_tools, log>>
    /\ Idle

McpDiscover_cached ==
    /\ Running("github_mcp_tool")
    /\ ~mcp_tools.discovered
    /\ Len(messages) < MaxMsgs
    /\ LET earlier == {i \in 1..Len(log) : log[i].ev = "discover"}
       IN  IF earlier = {}
           THEN /\ mcp_tools' = [discovered |-> TRUE, tools |-> remote_tools]
                /\ log' = Append(log, DiscoverEv(remote_tools))
           ELSE /\ mcp_tools' = [discovered |-> TRUE,
                                 tools |-> log[CHOOSE i \in earlier : TRUE].tools]
                /\ log' = log
    /\ UNCHANGED <<messages, node, path, status, proc, file_stats_exe>>
    /\ Idle

\* github_mcp__tool, first await: mcp_tools = await build_mcp_tools(), which
\* asks the server for the tools it offers now
McpDiscover ==
    /\ Running("github_mcp_tool")
    /\ ~mcp_tools.discovered
    /\ Len(messages) < MaxMsgs
    /\ mcp_tools' = [discovered |-> TRUE, tools |-> remote_tools]
    /\ log' = Append(log, DiscoverEv(remote_tools))
    /\ UNCHANGED <<messages, node, path, status, proc, file_stats_exe>>
    /\ Idle

\* github_mcp__tool, second await: mcp_llm = llm.bind_tools(mcp_tools);
\* response = await mcp_llm.ainvoke(messages)
McpInvoke ==
    /\ Running("github_mcp_tool")
    /\ mcp_tools.discovered
    /\ \E r \in LLMResponses :
         Complete("github_mcp_tool",
                  <<AIMessage(FreshId(messages), r.content, r.tool_calls)>>,
                  edge("github_mcp_tool"))
    /\ mcp_tools' = NoTools
    /\ log' = Append(log, BindEv(mcp_tools.tools))
    /\ UNCHANGED <<proc, file_stats_exe>>
    /\ Idle

\* build_mcp_tools raises, or ainvoke raises after the tools were bound
McpRaises ==
    /\ Running("github_mcp_tool")
    /\ Raise
    /\ log' = Append(log, IF mcp_tools.discovered
                          THEN BindEv(mcp_tools.tools)
                          ELSE DiscoverFailedEv)
    /\ UNCHANGED <<mcp_tools, proc, file_stats_exe>>
    /\ Idle

\* the MCP server changes the tools it offers (seen by the run only through
\* build_mcp_tools, so the change is taken while github_mcp__tool is current)
RemoteChanges ==
    /\ Running("github_mcp_tool")
    /\ \E tools \in RemoteToolSets \ {remote_tools} : remote_tools' = tools
    /\ UNCHANGED <<seed, messages, node, status, path, proc, file_stats_exe,
                   mcp_tools, log, routeVars, mergeVars, sessionVars, toolVars>>

GraphInit ==
    /\ seed \in Seeds
    /\ messages = add_messages(<<>>, seed)
    /\ node = "agent"
    /\ status = "running"
    /\ path = <<>>
    /\ proc = NoProc
    /\ file_stats_exe \in ExePaths
    /\ mcp_tools = NoTools
    /\ remote_tools \in RemoteToolSets
    /\ log = <<>>

NotMerged == [done |-> FALSE, value |-> <<>>]

GraphIdle ==
    /\ seed = <<>>
    /\ messages = <<>>
    /\ node = END
    /\ status = "idle"
    /\ path = <<>>
    /\ proc = NoProc
    /\ file_stats_exe = "./file_stats"
    /\ mcp_tools = NoTools
    /\ remote_tools = {}
    /\ log = <<>>

RouteIdle == rLast = <<>> /\ rOut = "none"
MergeIdle == mLeft = <<>> /\ mRight = <<>> /\ mOut = NotMerged

\* one session only
SessionsIdle == cur = "a" /\ parked = <<>>

NoChild == [error |-> "none", duration |-> 0, rc |-> 0, stdout |-> <<>>, stderr |-> <<>>]
NoReturn == [done |-> FALSE, kind |-> "none", members |-> <<>>, scalar |-> <<>>]
ToolIdle == child = NoChild /\ clock = [st |-> "idle", elapsed |-> 0] /\ ret = NoReturn

Init == GraphInit /\ RouteIdle /\ MergeIdle /\ SessionsIdle /\ ToolIdle

Next ==
    \/ Agent
    \/ AgentRaises
    \/ TavilyTool
    \/ TavilyRaises
    \/ FileStatsLaunch
    \/ FileStatsExit
    \/ McpDiscover
    \/ McpInvoke
    \/ McpRaises
    \/ RemoteChanges

Spec == Init /\ [][Next]_vars

-----------------------------------------------------------------------------
(* route_tools applied to every kind of latest message *)

RouteNames ==
    { n_tavily_search, n_Tavily_Search, n_file_stats, n_get_stats, n_profile,
      n_github_create_issue, n_github_file_stats, n_tavily_github, n_weather,
      n_FILE_STATS, n_GitHub_Search, n_empty }

RouteCalls == {ToolCall(n) : n \in RouteNames} \cup {NamelessCall}

RouteInputs ==
    {HumanMessage(1, <<"hello">>)}
    \cup {AIMessage(1, <<>>, <<>>)}
    \cup {AIMessage(1, <<>>, <<c>>) : c \in RouteCalls}
    \cup {AIMessage(1, <<>>, <<c, d>>) : c \in RouteCalls, d \in RouteCalls}

RouteInit ==
    /\ GraphIdle /\ MergeIdle /\ SessionsIdle /\ ToolIdle
    /\ rLast \in RouteInputs /\ rOut = "none"

RouteCall ==
    /\ rOut = "none"
    /\ rOut' = route_tools(<<rLast>>)
    /\ UNCHANGED <<rLast, graphVars, mergeVars, sessionVars, toolVars>>

RouteSpec == RouteInit /\ [][RouteCall]_vars

-----------------------------------------------------------------------------
(* add_messages applied to small lists *)

MergeLefts ==
    { <<>>,
      <<HumanMessage(1, <<"hello">>)>>,
      <<HumanMessage(1, <<"hello">>), AIMessage(2, <<"hi">>, <<>>)>> }

MergeItems ==
    { StrItem(<<"raw">>),
      AIMessage(NoId, <<"answer">>, <<>>),
      HumanMessage(1, <<"hello">>),
      AIMessage(2, <<"edited">>, <<>>),
      AIMessage(3, <<"new">>, <<>>) }

\* the incoming messages that carry an id carry different ones
MergeRights ==
    {<<>>}
    \cup {<<a>> : a \in MergeItems}
    \cup {p \in {<<a, b>> : a \in MergeItems, b \in MergeItems} :
             p[1].id = NoId \/ p[1].id # p[2].id}

MergeInit ==
    /\ GraphIdle /\ RouteIdle /\ SessionsIdle /\ ToolIdle
    /\ mLeft \in MergeLefts /\ mRight \in MergeRights /\ mOut = NotMerged

MergeCall ==
    /\ mOut = NotMerged
    /\ mOut' = [done |-> TRUE, value |-> add_messages(mLeft, mRight)]
    /\ UNCHANGED <<mLeft, mRight, graphVars, routeVars, sessionVars, toolVars>>

MergeSpec == MergeInit /\ [][MergeCall]_vars

-----------------------------------------------------------------------------
(* Several sessions on the one compiled graph: each invocation has its own   *)
(* State; the executor steps one of them at a time and may turn to another   *)
(* at any point, a node suspended on an await included.                      *)

Sessions == {"a", "b"}

\* the run of the session that is stepping
Snapshot ==
    [seed |-> seed, messages |-> messages, node |-> node, status |-> status,
     path |-> path, proc |-> proc, file_stats_exe |-> file_stats_exe,
     mcp_tools |-> mcp_tools, log |-> log]

\* a session's conversation so far: its own earlier questions
SessionSeed(s) == [i \in 1..(MaxMsgs - 2) |-> HumanMessage(i, <<s>>)]

\* korra_graph invoked on the session's input
Started(s) ==
    [seed |-> SessionSeed(s), messages |-> add_messages(<<>>, SessionSeed(s)),
     node |-> "agent", status |-> "running", path |-> <<>>, proc |-> NoProc,
     file_stats_exe |-> "./file_stats", mcp_tools |-> NoTools, log |-> <<>>]

\* the stepping session's run is run
Holds(run) ==
    /\ seed = run.seed
    /\ messages = run.messages
    /\ node = run.node
    /\ status = run.status
    /\ path = run.path
    /\ proc = run.proc
    /\ file_stats_exe = run.file_stats_exe
    /\ mcp_tools = run.mcp_tools
    /\ log = run.log

Resume(run) ==
    /\ seed' = run.seed
    /\ messages' = run.messages
    /\ node' = run.node
    /\ status' = run.status
    /\ path' = run.path
    /\ proc' = run.proc
    /\ file_stats_exe' = run.file_stats_exe
    /\ mcp_tools' = run.mcp_tools
    /\ log' = run.log

Switch_shared(s) ==
    /\ s \in DOMAIN parked
    /\ cur' = s
    /\ parked' = [t \in Sessions \ {s} |-> IF t = cur THEN Snapshot ELSE parked[t]]
    /\ UNCHANGED <<seed, messages, node, status, path, proc, file_stats_exe,
                   mcp_tools, log>>
    /\ UNCHANGED <<remote_tools, routeVars, mergeVars, toolVars>>

\* the executor turns from the stepping session to session s
Switch(s) ==
    /\ s \in DOMAIN parked
    /\ cur' = s
    /\ parked' = [t \in Sessions \ {s} |-> IF t = cur THEN Snapshot ELSE parked[t]]
    /\ Resume(parked[s])
    /\ UNCHANGED <<remote_tools, routeVars, mergeVars, toolVars>>

SessionsInit ==
    /\ cur = "a"
    /\ Holds(Started("a"))
    /\ parked = [s \in Sessions \ {"a"} |-> Started(s)]
    /\ remote_tools \in RemoteToolSets
    /\ RouteIdle /\ MergeIdle /\ ToolIdle

SessionsNext ==
    \/ Next
    \/ \E s \in Sessions : Switch(s)

SessionsSpec == SessionsInit /\ [][SessionsNext]_vars

-----------------------------------------------------------------------------
(* tools/file_stats_tool.py: analyze_file_statistics *)

\* subprocess.run(..., timeout=10), in seconds
ToolTimeout == 10

\* the characters that may follow a backslash inside a JSON string
Escapes == {"\"", "\\", "/", "n", "t"}

\* object keys, each token standing for the quoted key
ToolKeys == {"filename", "lines", "status"}

\* Python: s.replace("\\", "\\\\")
RECURSIVE DoubleBackslashes(_)
DoubleBackslashes(s) ==
    IF s = <<>> THEN <<>>
    ELSE (IF Head(s) = "\\" THEN <<"\\", "\\">> ELSE <<Head(s)>>)
         \o DoubleBackslashes(Tail(s))

\* the first position from i on that holds no whitespace
RECURSIVE SkipWs(_, _)
SkipWs(t, i) ==
    IF i <= Len(t) /\ t[i] \in Whitespace THEN SkipWs(t, i + 1) ELSE i

\* the position of the quote closing the string whose body starts at i;
\* 0 when the string is unterminated, holds a raw newline or a bad escape
RECURSIVE StringEnd(_, _)
StringEnd(t, i) ==
    IF i > Len(t) THEN 0
    ELSE IF t[i] = "\"" THEN i
    ELSE IF t[i] = "\n" THEN 0
    ELSE IF t[i] = "\\"
         THEN IF i + 1 <= Len(t) /\ t[i + 1] \in Escapes
              THEN StringEnd(t, i + 2)
              ELSE 0
    ELSE StringEnd(t, i + 1)

\* the characters a string body stands for
RECURSIVE Unescape(_)
Unescape(b) ==
    IF b = <<>> THEN <<>>
    ELSE IF Head(b) = "\\"
         THEN <<CASE b[2] = "n" -> "\n" [] b[2] = "t" -> "\t" [] OTHER -> b[2]>>
              \o Unescape(SubSeq(b, 3, Len(b)))
    ELSE <<Head(b)>> \o Unescape(Tail(b))

\* the last position of the number or string starting at i, 0 if there is none
ValueEnd(t, i) ==
    IF i > Len(t) THEN 0
    ELSE IF t[i] \in JsonNumbers THEN i
    ELSE IF t[i] = "\"" THEN StringEnd(t, i + 1)
    ELSE 0

ValueOf(t, i, e) ==
    IF t[i] \in JsonNumbers
    THEN [kind |-> "int", text |-> <<t[i]>>]
    ELSE [kind |-> "str", text |-> Unescape(SubSeq(t, i + 1, e - 1))]

NoParse == [ok |-> FALSE, members |-> <<>>, end |-> 0]

\* key : value groups separated by commas, up to the closing brace
RECURSIVE ParseMembers(_, _)
ParseMembers(t, i) ==
    LET k == SkipWs(t, i)
        c == SkipWs(t, k + 1)
        v == SkipWs(t, c + 1)
        e == ValueEnd(t, v)
        n == SkipWs(t, e + 1)
    IN  IF \/ k > Len(t) \/ t[k] \notin ToolKeys
           \/ c > Len(t) \/ t[c] # ":"
           \/ e = 0 \/ n > Len(t)
        THEN NoParse
        ELSE LET member == [key |-> t[k], val |-> ValueOf(t, v, e)]
             IN  IF t[n] = "}"
                 THEN [ok |-> TRUE, members |-> <<member>>, end |-> n]
                 ELSE IF t[n] = ","
                 THEN LET rest == ParseMembers(t, n + 1)
                      IN  [ok |-> rest.ok, members |-> <<member>> \o rest.members,
                           end |-> rest.end]
                 ELSE NoParse

NotJson == [ok |-> FALSE, kind |-> "none", members |-> <<>>, scalar |-> <<>>]

\* json.loads on a document of objects, numbers and strings: ok is FALSE when
\* it raises JSONDecodeError
loads(t) ==
    LET s == SkipWs(t, 1)
    IN  IF s > Len(t) THEN NotJson
        ELSE IF t[s] = "{"
        THEN LET n == SkipWs(t, s + 1)
                 p == IF n <= Len(t) /\ t[n] = "}"
                      THEN [ok |-> TRUE, members |-> <<>>, end |-> n]
                      ELSE ParseMembers(t, s + 1)
             IN  IF p.ok /\ SkipWs(t, p.end + 1) > Len(t)
                 THEN [ok |-> TRUE, kind |-> "dict", members |-> p.members,
                       scalar |-> <<>>]
                 ELSE NotJson
        ELSE LET e == ValueEnd(t, s)
             IN  IF e # 0 /\ SkipWs(t, e + 1) > Len(t)
                 THEN [ok |-> TRUE, kind |-> ValueOf(t, s, e).kind,
                       members |-> <<>>, scalar |-> ValueOf(t, s, e).text]
                 ELSE NotJson

Str(text) == [kind |-> "str", text |-> text]

\* {"error": ..., "status": "error"}
ErrorDict(text) ==
    [done |-> TRUE, kind |-> "dict", scalar |-> <<>>,
     members |-> << [key |-> "error", val |-> Str(text)],
                    [key |-> "status", val |-> Str(<<"error">>)] >>]

\* the dictionary of the JSONDecodeError handler
DecodeErrorDict(stdout_clean) ==
    [done |-> TRUE, kind |-> "dict", scalar |-> <<>>,
     members |-> << [key |-> "error", val |-> Str(<<"Invalid JSON output from tool">>)],
                    [key |-> "raw_output", val |-> Str(stdout_clean)],
                    [key |-> "status", val |-> Str(<<"error">>)],
                    [key |-> "decode_error", val |-> Str(<<"JSONDecodeError">>)] >>]

\* what the function returns once subprocess.run has returned
Returned(returncode, stdout, stderr) ==
    LET stdout_clean == Strip(stdout)
        stderr_clean == Strip(stderr)
    IN  IF returncode = 0 /\ stdout_clean # <<>>
        THEN LET escaped == DoubleBackslashes(stdout_clean)
                 parsed == loads(escaped)
             IN  IF parsed.ok
                 THEN [done |-> TRUE, kind |-> parsed.kind,
                       members |-> parsed.members, scalar |-> parsed.scalar]
                 ELSE DecodeErrorDict(escaped)
        ELSE ErrorDict(<<"Tool failed: ">> \o stderr_clean)

\* what the C program can print
ToolStdouts ==
    { <<>>,
      <<" ", "\n">>,
      <<"{", "lines", ":", " ", "10", ",", " ", "status", ":", " ",
        "\"", "o", "k", "\"", "}", "\n">>,
      <<"{", "}", "\n">>,
      <<"42", "\n">>,
      <<"l", "i", "n", "e", "s", " ", "10", "\n">>,
      <<"{", "filename", ":", "\"", "C", ":", "\\", "U", "\"", "}", "\n">>,
      <<"{", "filename", ":", "\"", "C", ":", "\\", "\\", "U", "\"", "}", "\n">>,
      <<"{", "filename", ":", "\"", "a", "\\", "\"", "b", "\"", "}", "\n">> }

ToolStderrs == { <<>>, <<"cannot open file", "\n">> }

\* how long the program runs, in seconds
Durations == {0, ToolTimeout - 1, ToolTimeout, 2 * ToolTimeout}

\* "launch": subprocess.run raises before the program runs (no executable);
\* "decode": it raises while reading the output (undecodable bytes)
Children ==
    [error : {"none", "launch", "decode"}, duration : Durations, rc : {0, 1},
     stdout : ToolStdouts, stderr : ToolStderrs]

ToolFrame == UNCHANGED <<child, graphVars, routeVars, mergeVars, sessionVars>>

ToolInit ==
    /\ GraphIdle /\ RouteIdle /\ MergeIdle /\ SessionsIdle
    /\ child \in Children
    /\ clock = [st |-> "called", elapsed |-> 0]
    /\ ret = NoReturn

AnalyzeLaunch ==
    /\ clock.st = "called"
    /\ IF child.error = "launch"
       THEN /\ ret' = ErrorDict(<<"Integration error: ", "FileNotFoundError">>)
            /\ clock' = [clock EXCEPT !.st = "returned"]
       ELSE /\ clock' = [clock EXCEPT !.st = "running"]
            /\ ret' = ret
    /\ ToolFrame

\* a second passes while the program runs
AnalyzeTick ==
    /\ clock.st = "running"
    /\ clock.elapsed < ToolTimeout
    /\ clock.elapsed < child.duration
    /\ clock' = [clock EXCEPT !.elapsed = @ + 1]
    /\ ret' = ret
    /\ ToolFrame

\* the program exited before the timeout
AnalyzeExit ==
    /\ clock.st = "running"
    /\ clock.elapsed = child.duration
    /\ clock.elapsed < ToolTimeout
    /\ ret' = IF child.error = "decode"
              THEN ErrorDict(<<"Integration error: ", "UnicodeDecodeError">>)
              ELSE Returned(child.rc, child.stdout, child.stderr)
    /\ clock' = [clock EXCEPT !.st = "returned"]
    /\ ToolFrame

\* subprocess.TimeoutExpired
AnalyzeTimeout ==
    /\ clock.st = "running"
    /\ clock.elapsed = ToolTimeout
    /\ ret' = ErrorDict(<<"Tool execution timed out">>)
    /\ clock' = [clock EXCEPT !.st = "returned"]
    /\ ToolFrame

ToolNext == AnalyzeLaunch \/ AnalyzeTick \/ AnalyzeExit \/ AnalyzeTimeout

ToolSpec == ToolInit /\ [][ToolNext]_vars

-----------------------------------------------------------------------------
(* Properties *)

\* the keyword occurs in the name, letter case aside
Mentions(call, kw) ==
    call.has_name /\ \E i \in 0..(Len(call.name) - Len(kw)) :
        Lower(SubSeq(call.name, i + 1, i + Len(kw))) = kw

\* a request the router has a tool node for
Actionable(call) ==
    \/ Mentions(call, kw_tavily)
    \/ Mentions(call, kw_file)
    \/ Mentions(call, kw_stats)
    \/ Mentions(call, kw_github)

Named(calls, n) == calls # <<>> /\ calls[1] = ToolCall(n)

\* C1: route_tools ends the run when the latest message carries no tool-call
\* request; otherwise the first request's name decides, "tavily" before "file"
\* or "stats" before "github", and a name with none of the keywords ends the
\* run; the named examples route as the specification lists them.
C1_RoutePriority ==
    rOut # "none" =>
      LET calls == rLast.tool_calls
      IN  /\ calls = <<>> => rOut = END
          /\ calls # <<>> =>
               LET c == calls[1]
               IN  /\ Mentions(c, kw_tavily) => rOut = "tavily_tool"
                   /\ (~Mentions(c, kw_tavily)
                        /\ (Mentions(c, kw_file) \/ Mentions(c, kw_stats)))
                      => rOut = "file_stats_tool"
                   /\ (~Mentions(c, kw_tavily) /\ ~Mentions(c, kw_file)
                        /\ ~Mentions(c, kw_stats) /\ Mentions(c, kw_github))
                      => rOut = "github_mcp_tool"
                   /\ ~Actionable(c) => rOut = END
          /\ Named(calls, n_tavily_search) => rOut = "tavily_tool"
          /\ Named(calls, n_file_stats) => rOut = "file_stats_tool"
          /\ Named(calls, n_get_stats) => rOut = "file_stats_tool"
          /\ Named(calls, n_github_create_issue) => rOut = "github_mcp_tool"
          /\ Named(calls, n_weather) => rOut = END
          /\ Named(calls, n_github_file_stats) => rOut = "file_stats_tool"

\* a name with two keywords has been routed by the earlier branch
C1_Witness ==
    /\ rOut = "file_stats_tool"
    /\ Named(rLast.tool_calls, n_github_file_stats)

LeavesToolForAgent ==
    node \in ToolNodes =>
      /\ node' \in {node, "agent"}
      /\ path' # path => (node' = "agent" /\ Last(path') = node)

\* C2: a tool node that finishes is followed by agent: from a tool node the
\* executor moves nowhere but to agent, and in the nodes executed so far every
\* tool node is followed by agent.
C2_ToolThenAgent ==
    /\ [][LeavesToolForAgent]_vars
    /\ [](\A i \in 1..(Len(path) - 1) :
            path[i] \in ToolNodes => path[i + 1] = "agent")

C2_Witness ==
    /\ Len(path) >= 3
    /\ path[2] = "file_stats_tool"
    /\ path[3] = "agent"

\* the process the node waits for never exits
Hung == Running("file_stats_tool") /\ proc.st = "running" /\ ~proc.exits

\* a node that can complete normally from the current state
Completes ==
    \/ Agent
    \/ TavilyTool
    \/ FileStatsLaunch
    \/ FileStatsExit
    \/ McpDiscover
    \/ McpInvoke

EntersEndFromRouter ==
    (node # END /\ node' = END) =>
      /\ node = "agent"
      /\ Last(path') = "agent"
      /\ Len(messages') = Len(messages) + 1
      /\ LET calls == Last(messages').tool_calls
         IN  calls = <<>> \/ ~Actionable(calls[1])

\* C3: the run starts in agent; Terminated has no outgoing transition; every
\* other node has a successor when it completes normally; and Terminated is
\* entered only by the router's decision right after agent, on a latest
\* message with no actionable tool-call request.
C3_OnlyTerminal ==
    /\ (status = "running" => (node = "agent" /\ path = <<>>))
    /\ [][node # END]_vars
    /\ []((status = "running" /\ node \in Nodes /\ ~Hung
              /\ Len(messages) < MaxMsgs) => ENABLED Completes)
    /\ [][path' # path => node' \in Nodes \cup {END}]_vars
    /\ [][EntersEndFromRouter]_vars

\* the run ended on a request whose name matches no keyword
C3_Witness ==
    /\ node = END
    /\ status = "running"
    /\ Last(messages).tool_calls # <<>>

\* C4: the messages held at any point are a prefix of the messages held at
\* every later point: each step keeps the existing messages in place.
C4_AppendOnly == [][IsPrefix(messages, messages')]_vars

C4_Witness ==
    /\ Len(path) >= 3
    /\ Len(messages) = Len(seed) + 3

\* the incoming item as the merge stores it, its id aside when it had none
Stored(item, m) ==
    /\ m.content = item.content
    /\ m.tool_calls = item.tool_calls
    /\ m.type = Coerce(item).type
    /\ item.id # NoId => m.id = item.id

\* C5: merge(S, incoming) = S ++ incoming, order preserved, also when an
\* incoming message has the identity of a message already in S.
C5_PlainConcatenation ==
    mOut.done =>
      /\ Len(mOut.value) = Len(mLeft) + Len(mRight)
      /\ SubSeq(mOut.value, 1, Len(mLeft)) = mLeft
      /\ \A j \in 1..Len(mRight) : Stored(mRight[j], mOut.value[Len(mLeft) + j])

Tokens(text) == {text[i] : i \in 1..Len(text)}

\* subprocess.run returned or raised in this step of file_stats__tool
FileStatsOutcome ==
    /\ Running("file_stats_tool")
    /\ proc' # proc
    /\ proc'.st \in {"exited", "not_found", "raised"}

ReturnsOneMessage ==
    FileStatsOutcome =>
      /\ status' = "running"
      /\ messages' = Append(messages, Last(messages'))
      /\ Last(path') = "file_stats_tool"
      /\ node' = "agent"
      /\ proc'.st = "not_found" => file_stats_exe \in Tokens(Last(messages').content)

\* C6: whatever subprocess.run does (exit zero, non-zero exit, executable not
\* found, any other exception), file_stats__tool raises nothing, returns
\* exactly one message and the run continues at agent; for a missing
\* executable the message names the configured path.
C6_NeverRaises == [][ReturnsOneMessage]_vars

\* an exception other than FileNotFoundError was turned into a message
C6_Witness ==
    /\ proc.st = "raised"
    /\ status = "running"
    /\ node = "agent"
    /\ Last(path) = "file_stats_tool"
    /\ Last(messages).content[1] = ErrPrefixRaised

\* C7: file_stats__tool does not hang on an executable that never exits:
\* while it waits for such a process a step of the run stays possible.
C7_NoHang == Hung => ENABLED Next

\* the run of the end-to-end test has ended: one seed message, agent, search
\* node, agent, Terminated
SearchThenAnswer ==
    /\ status = "running"
    /\ node = END
    /\ Len(seed) = 1
    /\ path = <<"agent", "tavily_tool", "agent">>

\* C8 as stated: the end-to-end run ends with exactly 3 messages.
C8_ThreeMessages == SearchThenAnswer => Len(messages) = 3

\* C8: the end-to-end run ends with exactly 4 messages: the seed, the agent's
\* search request, the search result, the agent's final answer, in that order.
C8_EndToEnd ==
    SearchThenAnswer =>
      /\ Len(messages) = 4
      /\ messages[1] = seed[1]
      /\ messages[2].type = "ai"
      /\ messages[2].tool_calls # <<>>
      /\ Mentions(messages[2].tool_calls[1], kw_tavily)
      /\ messages[3].content = <<"results for: ">> \o messages[2].content
      /\ messages[3].tool_calls = <<>>
      /\ messages[4].type = "ai"
      /\ (messages[4].tool_calls = <<>> \/ ~Actionable(messages[4].tool_calls[1]))

\* the agent asked for tavily_search, then answered without a request
C8_Witness ==
    /\ SearchThenAnswer
    /\ Named(messages[2].tool_calls, n_tavily_search)
    /\ Last(messages).tool_calls = <<>>

\* file_stats__tool has just returned after the process exited
AfterExit ==
    /\ path # <<>>
    /\ Last(path) = "file_stats_tool"
    /\ proc.st = "exited"
    /\ Len(messages) = Len(seed) + Len(path)

\* C9 as stated: after a non-zero exit the message embeds the exit code and
\* the stderr text as the process wrote it.
C9_EmbedsStderr ==
    (AfterExit /\ proc.rc # 0) =>
      /\ ToString(proc.rc) \in Tokens(Last(messages).content)
      /\ Contains(proc.stderr, Last(messages).content)
      /\ node = "agent"

\* C9: after a non-zero exit file_stats__tool has appended one error message
\* that embeds the exit code and the stderr text with leading and trailing
\* whitespace removed, whatever stdout held, and the run continues at agent.
C9_ExitError ==
    (path # <<>> /\ Last(path) = "file_stats_tool" /\ proc.st = "exited"
       /\ proc.rc # 0) =>
      /\ Len(messages) = Len(seed) + Len(path)
      /\ Last(messages).content # <<>>
      /\ Last(messages).content[1] = ErrPrefixExit
      /\ ToString(proc.rc) \in Tokens(Last(messages).content)
      /\ Contains(Strip(proc.stderr), Last(messages).content)
      /\ Len(Last(messages).content) = 3 + Len(Strip(proc.stderr))
      /\ node = "agent"

\* exit code 2 with stderr "bad file", and stdout not empty
C9_Witness ==
    /\ AfterExit
    /\ proc.rc = 2
    /\ proc.stderr = <<"bad file">>
    /\ proc.stdout # <<>>
    /\ node = "agent"

IsErrorText(text) ==
    text # <<>> /\ text[1] \in {ErrPrefixExit, ErrPrefixNotFound, ErrPrefixRaised}

FailsInPlace ==
    (status = "running" /\ status' = "failed") =>
      /\ node \in {"agent", "tavily_tool", "github_mcp_tool"}
      /\ node' = node
      /\ messages' = messages
      /\ path' = path

\* C11: a failure of the model backend (in agent or github_mcp_tool), of the
\* search backend or of remote discovery is not caught: the run fails at that
\* node, the node appends no message, the messages stay as they were when the
\* node started, and nothing runs after the failure.
C11_FailureLeavesMessages ==
    /\ [][FailsInPlace]_vars
    /\ [][status # "failed"]_vars
    /\ [](status = "failed" => Len(messages) = Len(seed) + Len(path))
    /\ []((status = "running" /\ node \in {"agent", "tavily_tool", "github_mcp_tool"})
            => ENABLED (Next /\ status' = "failed"))

\* the backend invocation of github_mcp_tool failed after its discovery
C11_Witness ==
    /\ status = "failed"
    /\ node = "github_mcp_tool"
    /\ mcp_tools.discovered
    /\ Len(messages) = Len(seed) + Len(path)

Count(seq, P(_)) == Cardinality({i \in 1..Len(seq) : P(seq[i])})

\* how often route_tools was applied to the message with this id
TimesRouted(id) == Count(log, LAMBDA e : e.ev = "route" /\ e.id = id)

\* C12: the tool-call requests of every AI message a node appended are consumed
\* by the router exactly once, also those of the response github_mcp_tool
\* appended.
C12_RoutedOnce ==
    \A i \in (Len(seed) + 1)..Len(messages) :
        (messages[i].type = "ai" /\ messages[i].tool_calls # <<>>)
          => TimesRouted(messages[i].id) = 1

\* executions of github_mcp_tool begun so far: the completed ones, and the one
\* that is past its first await or failed
McpStarted ==
    Count(path, LAMBDA n : n = "github_mcp_tool")
    + (IF node = "github_mcp_tool" /\ (mcp_tools.discovered \/ status = "failed")
       THEN 1 ELSE 0)

DiscoveryCalls == Count(log, LAMBDA e : e.ev \in {"discover", "discover_failed"})

DiscoversWhatIsOffered ==
    (Len(log') = Len(log) + 1 /\ Last(log').ev = "discover")
      => Last(log').tools = remote_tools

BindsOwnDiscovery ==
    (Len(log') = Len(log) + 1 /\ Last(log').ev = "bind")
      => /\ log # <<>>
         /\ Last(log).ev = "discover"
         /\ Last(log').tools = Last(log).tools
         /\ mcp_tools.discovered
         /\ Last(log').tools = mcp_tools.tools

\* C13: github_mcp_tool discovers the remote tools anew in every execution:
\* as many discovery calls as executions begun, every binding directly
\* preceded by the discovery of the same execution and binding exactly the
\* tools that discovery returned, which are those the server offered then;
\* nothing is kept from one execution to the next.
C13_FreshDiscovery ==
    /\ [](DiscoveryCalls = McpStarted)
    /\ [][DiscoversWhatIsOffered]_vars
    /\ [][BindsOwnDiscovery]_vars
    /\ []((node # "github_mcp_tool") => mcp_tools = NoTools)

\* two executions in one run bound different tool sets
C13_Witness ==
    \E i, j \in 1..Len(log) :
        /\ i < j
        /\ log[i].ev = "bind" /\ log[j].ev = "bind"
        /\ log[i].tools # log[j].tools

\* the agent's output carries an actionable request: the loop goes round again
AgentRequestsTool == Agent /\ node' \in ToolNodes

\* a tool node hands control back to agent
ToolReturns ==
    (TavilyTool \/ FileStatsLaunch \/ FileStatsExit \/ McpInvoke) /\ node' = "agent"

EndsOnlyWithoutRequest ==
    (node # END /\ node' = END) =>
      /\ node = "agent"
      /\ LET calls == Last(messages').tool_calls
         IN  calls = <<>> \/ ~Actionable(calls[1])

RouteOf(call) ==
    IF Mentions(call, kw_tavily) THEN "tavily_tool"
    ELSE IF Mentions(call, kw_file) \/ Mentions(call, kw_stats) THEN "file_stats_tool"
    ELSE IF Mentions(call, kw_github) THEN "github_mcp_tool"
    ELSE END

RoutesOnFirstRequest ==
    path' = Append(path, "agent") =>
      LET calls == Last(messages').tool_calls
      IN  calls # <<>> => node' = RouteOf(calls[1])

\* agent and tool nodes take turns, one tool node per turn
OneToolPerHop ==
    \A i \in 1..Len(path) :
      /\ (path[i] = "agent" /\ i < Len(path)) => path[i + 1] \in ToolNodes
      /\ (path[i] \in ToolNodes /\ i < Len(path)) => path[i + 1] = "agent"
      /\ (path[i] = "agent" /\ i = Len(path)) => node \in ToolNodes \cup {END}
      /\ (path[i] \in ToolNodes /\ i = Len(path)) => node = "agent"

\* C17: when the agent's output carries several tool-call requests the route is
\* the one the first request stands for, whatever the later requests are, and
\* the tool node entered hands control straight back to agent: between two
\* agent executions exactly one tool node runs, none for the later requests.
C17_FirstRequestOnly ==
    /\ [][RoutesOnFirstRequest]_vars
    /\ []OneToolPerHop

\* the agent asked for tavily_search and github_create_issue at once; the
\* search node ran and the agent is next, the remote node was not entered
C17_Witness ==
    /\ Len(seed) = 1
    /\ path = <<"agent", "tavily_tool">>
    /\ node = "agent"
    /\ Len(messages[2].tool_calls) = 2
    /\ messages[2].tool_calls[2] = ToolCall(n_github_create_issue)

\* a completed node execution stores one more message
AppendsOne ==
    path' # path =>
      /\ Len(path') = Len(path) + 1
      /\ Len(messages') = Len(messages) + 1
      /\ IsPrefix(messages, messages')

Terminated == status = "running" /\ node = END

ToolExecutions == Count(path, LAMBDA n : n \in ToolNodes)

\* C18: every node execution that completes appends exactly one message and
\* leaves the earlier ones as they were; a run that reaches Terminated after k
\* tool-node executions holds seed + 2k + 1 messages, produced alternately by
\* agent and by a tool node, the last one by agent.
C18_OneMessagePerNode ==
    /\ [][AppendsOne]_vars
    /\ [](Len(messages) = Len(seed) + Len(path))
    /\ [](Terminated =>
            /\ Len(messages) = Len(seed) + 2 * ToolExecutions + 1
            /\ Len(path) = 2 * ToolExecutions + 1
            /\ \A i \in 1..Len(path) :
                 IF i % 2 = 1 THEN path[i] = "agent" ELSE path[i] \in ToolNodes
            /\ Last(messages).type = "ai")

\* Terminated after one subprocess-tool execution: k = 1
C18_Witness ==
    /\ Terminated
    /\ Len(seed) = 1
    /\ path = <<"agent", "file_stats_tool", "agent">>
    /\ Len(messages) = 4

\* every request of every agent output so far names a bound tool
OnlyBoundRequested ==
    \A i \in 1..Len(path) :
      path[i] = "agent" =>
        \A j \in 1..Len(messages[Len(seed) + i].tool_calls) :
          LET call == messages[Len(seed) + i].tool_calls[j]
          IN  call.has_name /\ call.name \in AgentBoundTools

\* C19: as long as the agent's outputs request bound tools only (tavily_search
\* alone), the run is never in file_stats_tool or github_mcp_tool and neither
\* has executed; entering one of them takes an agent output whose first request
\* names a tool that was not bound.
C19_UnboundNodesUnreached ==
    /\ OnlyBoundRequested =>
         /\ node \notin {"file_stats_tool", "github_mcp_tool"}
         /\ \A i \in 1..Len(path) :
              path[i] \notin {"file_stats_tool", "github_mcp_tool"}
    /\ (status = "running" /\ node \in {"file_stats_tool", "github_mcp_tool"}) =>
         LET calls == Last(messages).tool_calls
         IN  /\ calls # <<>>
             /\ calls[1].has_name
             /\ calls[1].name \notin AgentBoundTools

\* the agent asked for the bound search tool twice in a row
C19_Witness ==
    /\ OnlyBoundRequested
    /\ Len(seed) = 1
    /\ path = <<"agent", "tavily_tool", "agent">>
    /\ node = "tavily_tool"
    /\ Named(messages[2].tool_calls, n_tavily_search)
    /\ Named(messages[4].tool_calls, n_tavily_search)

\* the latest message with its first request's name lower-cased
LowerCased(m) ==
    [m EXCEPT !.tool_calls =
        <<[m.tool_calls[1] EXCEPT !.name = Lower(m.tool_calls[1].name)]>>
        \o Tail(m.tool_calls)]

Routed == rOut # "none" /\ rLast.tool_calls # <<>>

\* C20: route_tools lower-cases the first request's name before matching, so a
\* name and its lower-cased form select the same route ("Tavily_Search" goes
\* to tavily_tool, "FILE_STATS" to file_stats_tool, "GitHub_Search" to
\* github_mcp_tool); a first request with no name or with an empty name routes
\* to Terminated; every input gets a route.
C20_CaseInsensitiveTotal ==
    /\ Routed => rOut = route_tools(<<LowerCased(rLast)>>)
    /\ (Routed /\ Named(rLast.tool_calls, n_Tavily_Search)) => rOut = "tavily_tool"
    /\ (Routed /\ Named(rLast.tool_calls, n_FILE_STATS)) => rOut = "file_stats_tool"
    /\ (Routed /\ Named(rLast.tool_calls, n_GitHub_Search)) => rOut = "github_mcp_tool"
    /\ (Routed /\ ~rLast.tool_calls[1].has_name) => rOut = END
    /\ (Routed /\ rLast.tool_calls[1].name = <<>>) => rOut = END
    /\ rOut # "none" => rOut \in ToolNodes \cup {END}

\* "Tavily_Search" first, a nameless request second, routed to the search node
C20_Witness ==
    /\ rOut = "tavily_tool"
    /\ Named(rLast.tool_calls, n_Tavily_Search)
    /\ Len(rLast.tool_calls) = 2
    /\ rLast.tool_calls[2] = NamelessCall

IsErrorDict(r) ==
    /\ r.kind = "dict"
    /\ \E i \in 1..Len(r.members) : r.members[i].key = "error"
    /\ \E i \in 1..Len(r.members) :
         r.members[i].key = "status" /\ r.members[i].val.text = <<"error">>

\* the program exited zero in time with non-empty stdout that is valid JSON
ParsableOutcome ==
    /\ child.error = "none"
    /\ child.duration < ToolTimeout
    /\ child.rc = 0
    /\ Strip(child.stdout) # <<>>
    /\ loads(Strip(child.stdout)).ok

\* C16: analyze_file_statistics always returns a dictionary: the parsed
\* stdout when the program exits zero within the timeout with non-empty stdout
\* that parses as JSON, and in every other outcome a dictionary with an
\* "error" entry and "status" equal to "error".
C16_DictOrErrorDict ==
    ret.done =>
      /\ ret.kind = "dict"
      /\ IF ParsableOutcome
         THEN ret.members = loads(Strip(child.stdout)).members
         ELSE IsErrorDict(ret)

\* the run of session s, stepping or not
SessionRun(s) == IF s = cur THEN Snapshot ELSE parked[s]

\* a session's run changes only in a step of that session
OwnStepsOnly ==
    \A s \in Sessions :
      SessionRun(s)' # SessionRun(s) => (s = cur /\ cur' = cur)

\* a session's messages change only by the completion of its own node, which
\* keeps what was there
OwnNodeAppends ==
    \A s \in Sessions :
      SessionRun(s)'.messages # SessionRun(s).messages =>
        /\ s = cur /\ cur' = cur
        /\ path' = Append(path, node)
        /\ IsPrefix(messages, messages')

\* a run has one position, and the work in progress belongs to that node
OneNodeAtATime ==
    \A s \in Sessions :
      LET run == SessionRun(s)
      IN  /\ run.node \in Nodes \cup {END}
          /\ run.proc.st = "running" => run.node = "file_stats_tool"
          /\ run.mcp_tools.discovered => run.node = "github_mcp_tool"
          /\ Len(run.messages) = Len(run.seed) + Len(run.path)

\* C15: a run is at one node at a time, and with several sessions running
\* concurrently a session's messages change only when that session's own node
\* completes: steps of other sessions, taken while it waits (also while its
\* github_mcp_tool is suspended between discovery and the backend call), do
\* not alter, reorder or add to them.
C15_SessionsIsolated ==
    /\ []OneNodeAtATime
    /\ [][OwnStepsOnly]_vars
    /\ [][OwnNodeAppends]_vars

\* session a is suspended in github_mcp_tool after discovery while session b
\* has completed its agent and search nodes
C15_Witness ==
    /\ cur = "b"
    /\ parked["a"].node = "github_mcp_tool"
    /\ parked["a"].mcp_tools.discovered
    /\ parked["a"].messages = SessionSeed("a") \o <<Last(parked["a"].messages)>>
    /\ path = <<"agent", "tavily_tool">>
    /\ Len(messages) = MaxMsgs

====
